---- MODULE Spec2Model ----
(***************************************************************************)
(* A model of the leaguepass-ranker scoring engine (ranker.py, odds.py).   *)
(*                                                                         *)
(* Numbers are fixed point.  A statistic read from a CSV cell, a fantasy   *)
(* point value, a rating and a spread are integers in tenths (25.0 is      *)
(* 250).  Weighted star sums are in twentieths, and the composite score is *)
(* computed in units of 1/600, the least unit in which every term of the   *)
(* formula of get_schedule_with_stats is an integer.  A row names, in its   *)
(* field bad, the columns whose cell float() rejects.                      *)
(***************************************************************************)
EXTENDS Integers, Sequences, FiniteSets, TLC

VARIABLES
    \* the outside world, frozen for the length of a behaviour
    target_date,    \* the date string passed to get_schedule_with_stats
    cdn,            \* the schedule feed: how the request ends and what it holds
    stats_csv,      \* stats.csv
    team_csv,       \* team_stats.csv
    injury_html,    \* injuries.html
    odds_api,       \* the odds module, its key and the odds API's answer
    \* the program
    pc,             \* position in get_schedule_with_stats
    games_df,       \* local: the schedule table
    rosters,        \* local: load_players()
    team_stats,     \* local: load_team_stats()
    injured_set,    \* local: load_injuries()
    spreads,        \* local: get_betting_spreads()
    enriched_games, \* local: the records built so far
    idx,            \* the row the for loop is at
    result,         \* what the last call returned (or that it raised)
    prev            \* what the call before it returned

env  == <<target_date, cdn, stats_csv, team_csv, injury_html, odds_api>>
prog == <<pc, games_df, rosters, team_stats, injured_set, spreads,
          enriched_games, idx, result, prev>>
vars == <<env, prog>>

\* ------------------------------------------------------------ bounds
MaxGames == 2
MaxRows == 2

\* ------------------------------------------------------------ helpers
EmptyDict == <<>>                       \* {} : a function with no keys
Unbound == [bound |-> FALSE]            \* a local not assigned yet
Bound(v) == [bound |-> TRUE, v |-> v]   \* a local holding v
NoCall == [kind |-> "none"]             \* no call has ended yet
Raised == [kind |-> "raised"]           \* the call ended by raising
Table(rows) == [kind |-> "table", rows |-> rows]    \* pd.DataFrame(rows)

Abs(x) == IF x < 0 THEN -x ELSE x
Max(a, b) == IF a >= b THEN a ELSE b
Min(a, b) == IF a <= b THEN a ELSE b

\* round(n/d) to the nearest integer, ties to even (Python's round on a value
\* that is exactly n/d; the binary error of a float sum is not modelled)
RoundHalfEven(n, d) ==
    LET q == n \div d
        r == n % d
    IN  IF 2 * r < d THEN q
        ELSE IF 2 * r > d THEN q + 1
        ELSE IF q % 2 = 0 THEN q ELSE q + 1

\* int(x): truncation toward zero of n/d
Trunc(n, d) == IF n >= 0 THEN n \div d ELSE -((-n) \div d)

\* float(row[c]) succeeds
IsNum(row, c) == c \notin row.bad

\* dict.get(key, default)
Get(dict, key, default) == IF key \in DOMAIN dict THEN dict[key] ELSE default

\* dict[key] = value
Put(dict, key, value) ==
    [k \in DOMAIN dict \cup {key} |-> IF k = key THEN value ELSE dict[k]]

\* ------------------------------------------------------------ constants
TEAM_MAP ==
    [n \in {"Atlanta Hawks", "Boston Celtics", "Brooklyn Nets", "Charlotte Hornets",
            "Chicago Bulls", "Cleveland Cavaliers", "Dallas Mavericks", "Denver Nuggets",
            "Detroit Pistons", "Golden State Warriors", "Houston Rockets",
            "Indiana Pacers", "Los Angeles Clippers", "Los Angeles Lakers",
            "Memphis Grizzlies", "Miami Heat", "Milwaukee Bucks",
            "Minnesota Timberwolves", "New Orleans Pelicans", "New York Knicks",
            "Oklahoma City Thunder", "Orlando Magic", "Philadelphia 76ers",
            "Phoenix Suns", "Portland Trail Blazers", "Sacramento Kings",
            "San Antonio Spurs", "Toronto Raptors", "Utah Jazz", "Washington Wizards"} |->
        CASE n = "Atlanta Hawks" -> "ATL" [] n = "Boston Celtics" -> "BOS"
          [] n = "Brooklyn Nets" -> "BKN" [] n = "Charlotte Hornets" -> "CHA"
          [] n = "Chicago Bulls" -> "CHI" [] n = "Cleveland Cavaliers" -> "CLE"
          [] n = "Dallas Mavericks" -> "DAL" [] n = "Denver Nuggets" -> "DEN"
          [] n = "Detroit Pistons" -> "DET" [] n = "Golden State Warriors" -> "GSW"
          [] n = "Houston Rockets" -> "HOU" [] n = "Indiana Pacers" -> "IND"
          [] n = "Los Angeles Clippers" -> "LAC" [] n = "Los Angeles Lakers" -> "LAL"
          [] n = "Memphis Grizzlies" -> "MEM" [] n = "Miami Heat" -> "MIA"
          [] n = "Milwaukee Bucks" -> "MIL" [] n = "Minnesota Timberwolves" -> "MIN"
          [] n = "New Orleans Pelicans" -> "NOP" [] n = "New York Knicks" -> "NYK"
          [] n = "Oklahoma City Thunder" -> "OKC" [] n = "Orlando Magic" -> "ORL"
          [] n = "Philadelphia 76ers" -> "PHI" [] n = "Phoenix Suns" -> "PHX"
          [] n = "Portland Trail Blazers" -> "POR" [] n = "Sacramento Kings" -> "SAC"
          [] n = "San Antonio Spurs" -> "SAS" [] n = "Toronto Raptors" -> "TOR"
          [] n = "Utah Jazz" -> "UTA" [] n = "Washington Wizards" -> "WAS"]

\* config.py's map holds the same pairs
TEAM_NAME_MAP == TEAM_MAP

TeamAbbrs == {TEAM_MAP[n] : n \in DOMAIN TEAM_MAP}

\* the names ranker.py binds at module level before get_schedule_with_stats runs
ModuleGlobals ==
    {"IST_TZ", "STATS_CSV", "TEAM_CSV", "INJURY_HTML", "TEAM_LOGOS_URL", "TEAM_MAP",
     "load_players", "load_team_stats", "load_injuries", "get_schedule_from_cdn",
     "get_betting_spreads", "parse_time", "convert_et_to_ist", "get_schedule_with_stats"}

\* ------------------------------------------------------------ load_players
BREF_ABBR == [c \in {"BRK", "CHO", "PHO", "TOT"} |->
                 CASE c = "BRK" -> "BKN" [] c = "CHO" -> "CHA"
                   [] c = "PHO" -> "PHX" [] c = "TOT" -> "SKIP"]

\* row.get('Team', row.get('Tm', 'SKIP'))
RawTeam(csv, row) == IF csv.team_col \in {"Team", "Tm"} THEN row.code ELSE "SKIP"

\* the team code kept as the sheet gives it
CanonTeamAsGiven(raw_team) == raw_team

\* BREF_ABBR.get(raw_team, raw_team)
CanonTeam(raw_team) == Get(BREF_ABBR, raw_team, raw_team)

\* row.get('TOV', 0)
TovCell(csv, row) == IF csv.has_tov THEN row.TOV ELSE 0

\* whether the float() calls of the fantasy point formula all succeed
FpParses(csv, row) ==
    /\ \A c \in {"PTS", "TRB", "AST", "STL", "BLK"} : IsNum(row, c)
    /\ csv.has_tov => IsNum(row, "TOV")

\* round(PTS + 1.2 TRB + 1.5 AST + 3 STL + 3 BLK - TOV, 1), in tenths
FantasyPoints(csv, row) ==
    RoundHalfEven(10 * row.PTS + 12 * row.TRB + 15 * row.AST + 30 * row.STL
                    + 30 * row.BLK - 10 * TovCell(csv, row), 10)

\* str(row['Player']).split("\\")[0] : the cell is the list of its
\* backslash-separated parts
PlayerName(row) == row.Player[1]

PlayerRecord(csv, row) == [name |-> PlayerName(row), fp |-> FantasyPoints(csv, row)]

\* rosters[team].append(record), creating the list when the team is new
AppendToRoster(r, team, rec) == Put(r, team, Append(Get(r, team, <<>>), rec))

\* the body of the loop over the rows, from the first row on
RECURSIVE CollectRows(_, _, _)
CollectRows(csv, rows, acc) ==
    IF rows = <<>> THEN acc
    ELSE LET row == Head(rows)
             team == CanonTeam(RawTeam(csv, row))
         IN  IF team = "SKIP" \/ ~FpParses(csv, row)
             THEN CollectRows(csv, Tail(rows), acc)
             ELSE CollectRows(csv, Tail(rows),
                              AppendToRoster(acc, team, PlayerRecord(csv, row)))

\* list.sort(key=fp, reverse=True): stable, descending
RECURSIVE InsertDesc(_, _)
InsertDesc(e, s) ==
    IF s = <<>> THEN <<e>>
    ELSE IF Head(s).fp >= e.fp THEN <<Head(s)>> \o InsertDesc(e, Tail(s))
    ELSE <<e>> \o s

\* the roster left in the order of the sheet
SortDescNone(s) == s

RECURSIVE SortDesc(_)
SortDesc(s) ==
    IF s = <<>> THEN <<>>
    ELSE InsertDesc(s[Len(s)], SortDesc(SubSeq(s, 1, Len(s) - 1)))

load_players(csv) ==
    IF ~csv.exists THEN EmptyDict
    ELSE IF ~csv.readable \/ ~csv.has_player_col THEN EmptyDict
    ELSE LET df == SelectSeq(csv.rows, LAMBDA r : r.Player # <<"Player">>)
             collected == CollectRows(csv, df, EmptyDict)
         IN  [t \in DOMAIN collected |-> SortDesc(collected[t])]

\* ------------------------------------------------------------ load_team_stats
\* a winning share num/den, compared without dividing
Half == [num |-> 1, den |-> 2]

DefaultTeam == [pace |-> 1000, net |-> 0, ortg |-> 1150, wins |-> Half]

\* w / (w + l) if (w + l) > 0 else 0.5
WinPct(w, l) == IF w + l > 0 THEN [num |-> w, den |-> w + l] ELSE Half

\* str(row['Team']).replace('*', '') : the cell is the name and its marks
TeamFullName(row) == row.Team[1]

TeamRowParses(row) == \A c \in {"W", "L", "Pace", "NRtg", "ORtg"} : IsNum(row, c)

RECURSIVE UpdateTeams(_, _)
UpdateTeams(rows, acc) ==
    IF rows = <<>> THEN acc
    ELSE LET row == Head(rows)
             full_name == TeamFullName(row)
         IN  IF full_name \in DOMAIN TEAM_MAP /\ TeamRowParses(row)
             THEN UpdateTeams(Tail(rows),
                     Put(acc, TEAM_MAP[full_name],
                         [pace |-> row.Pace, net |-> row.NRtg, ortg |-> row.ORtg,
                          wins |-> WinPct(row.W, row.L)]))
             ELSE UpdateTeams(Tail(rows), acc)

load_team_stats(csv) ==
    LET defaults == [k \in TeamAbbrs |-> DefaultTeam]
    IN  IF ~csv.exists THEN defaults
        ELSE IF ~csv.readable \/ ~csv.has_team_col THEN defaults
        ELSE UpdateTeams(SelectSeq(csv.rows,
                                   LAMBDA r : r.Team # <<"League Average">>),
                         defaults)

\* ------------------------------------------------------------ load_injuries
\* str.lower(), one character
UpperLetters == <<"A", "B", "C", "D", "E", "F", "G", "H", "I", "J", "K", "L", "M",
                  "N", "O", "P", "Q", "R", "S", "T", "U", "V", "W", "X", "Y", "Z">>
LowerLetters == <<"a", "b", "c", "d", "e", "f", "g", "h", "i", "j", "k", "l", "m",
                  "n", "o", "p", "q", "r", "s", "t", "u", "v", "w", "x", "y", "z">>

LowerChar(c) ==
    IF \E i \in 1..26 : UpperLetters[i] = c
    THEN LowerLetters[CHOOSE i \in 1..26 : UpperLetters[i] = c]
    ELSE c

Lower(s) == [i \in 1..Len(s) |-> LowerChar(s[i])]

\* sub in s
Contains(sub, s) ==
    \E i \in 1..(Len(s) - Len(sub) + 1) : SubSeq(s, i, i + Len(sub) - 1) = sub

\* "out" in status.lower() or "doubtful" in status.lower()
IsOutStatus(status) ==
    \/ Contains(<<"o", "u", "t">>, Lower(status))
    \/ Contains(<<"d", "o", "u", "b", "t", "f", "u", "l">>, Lower(status))

\* the status column a table offers, or none
StatusCol(table) ==
    IF "Injury Status" \in table.columns THEN "Injury Status" ELSE "Status"

TableInjured(table) ==
    IF "Player" \in table.columns /\ StatusCol(table) \in table.columns
    THEN {table.rows[i].Player : i \in {j \in 1..Len(table.rows) :
                                          IsOutStatus(table.rows[j].status)}}
    ELSE {}

load_injuries(html) ==
    IF ~html.exists THEN {}
    ELSE IF ~html.readable THEN {}
    ELSE UNION {TableInjured(html.tables[i]) : i \in 1..Len(html.tables)}

\* ------------------------------------------------------------ get_schedule_from_cdn
\* datetime.strptime(target_date_str, "%Y-%m-%d") succeeds
ValidDates == {"2025-01-10", "2025-10-25"}

\* nat_tv: the first national broadcaster's display name, or ""
NatTv(game) == IF game.national # <<>> THEN game.national[1] ELSE ""

ScheduleRow(game) ==
    [home |-> game.home, away |-> game.away,
     home_id |-> game.home_id, away_id |-> game.away_id,
     time |-> game.time, tv |-> NatTv(game)]

\* the rows of the first gameDates entry that matches the target date
RECURSIVE GamesOfDate(_, _)
GamesOfDate(dates, target) ==
    IF dates = <<>> THEN <<>>
    ELSE IF Head(dates).gameDate = target
         THEN [i \in 1..Len(Head(dates).games) |-> ScheduleRow(Head(dates).games[i])]
         ELSE GamesOfDate(Tail(dates), target)

\* a game of the matching date lacks a key the loop indexes
RECURSIVE HitsMalformedGame(_, _)
HitsMalformedGame(dates, target) ==
    IF dates = <<>> THEN FALSE
    ELSE IF Head(dates).gameDate = target
         THEN \E i \in 1..Len(Head(dates).games) : ~Head(dates).games[i].wellformed
         ELSE HitsMalformedGame(Tail(dates), target)

\* the rows of the table it returns; every failure is an empty table
get_schedule_from_cdn(target, feed) ==
    IF feed.outcome # "ok" THEN <<>>
    ELSE IF target \notin ValidDates THEN <<>>
    ELSE IF HitsMalformedGame(feed.dates, target) THEN <<>>
    ELSE GamesOfDate(feed.dates, target)

\* ------------------------------------------------------------ odds.get_betting_spreads
Returns(v) == [raised |-> FALSE, v |-> v]
Raises == [raised |-> TRUE]

\* a spread as the API gives it: a number of tenths, or null
Num(n) == [null |-> FALSE, v |-> n]
Null == [null |-> TRUE]

\* outcome.get('point', 0)
PointOf(outcome) == IF outcome.has_point THEN outcome.point ELSE Num(0)

\* the loop over one market's outcomes; outcome['name'] raises when the key is missing
RECURSIVE ReadOutcomes(_, _)
ReadOutcomes(outcomes, acc) ==
    IF outcomes = <<>> THEN Returns(acc)
    ELSE LET outcome == Head(outcomes)
         IN  IF ~outcome.has_name THEN Raises
             ELSE IF outcome.name \in DOMAIN TEAM_NAME_MAP
                  THEN ReadOutcomes(Tail(outcomes),
                                    Put(acc, TEAM_NAME_MAP[outcome.name], PointOf(outcome)))
                  ELSE ReadOutcomes(Tail(outcomes), acc)

\* the loop over the games: the first bookmaker's first market only
RECURSIVE ReadOddsGames(_, _)
ReadOddsGames(data, acc) ==
    IF data = <<>> THEN Returns(acc)
    ELSE LET bookmakers == Head(data).bookmakers
         IN  IF bookmakers = <<>> THEN ReadOddsGames(Tail(data), acc)
             ELSE IF bookmakers[1].markets = <<>> THEN ReadOddsGames(Tail(data), acc)
             ELSE LET got == ReadOutcomes(bookmakers[1].markets[1].outcomes, acc)
                  IN  IF got.raised THEN Raises
                      ELSE ReadOddsGames(Tail(data), got.v)

\* odds.get_betting_spreads
odds_get_betting_spreads(api) ==
    IF api.key = "PASTE_YOUR_KEY_HERE" THEN Returns(EmptyDict)
    ELSE IF api.request = "network_error" THEN Raises
    ELSE IF api.status_code # 200 THEN Returns(EmptyDict)
    ELSE IF ~api.json_ok THEN Raises
    ELSE ReadOddsGames(api.data, EmptyDict)

\* the name ranker.py binds: odds' function, or the stub when the import fails
get_betting_spreads(api) ==
    IF api.import_ok THEN odds_get_betting_spreads(api) ELSE Returns(EmptyDict)

\* ------------------------------------------------------------ times
\* a schedule time is [kind |-> "clock", h, m, mer] for "h:mm mer ET", or
\* [kind |-> "text", text] for a text with no clock time in it ("", "Final")
Clock(h, m, mer) == [kind |-> "clock", h |-> h, m |-> m, mer |-> mer]
Text(t) == [kind |-> "text", text |-> t]

\* re.search(r"(\d+):(\d+)\s+(am|pm)", s, re.IGNORECASE)
MatchesAmPmAnyCase(t) == t.kind = "clock"

\* re.search(r"(\d+):(\d+)\s+(AM|PM)", s)
MatchesAmPmUpper(t) == t.kind = "clock" /\ t.mer \in {"AM", "PM"}

LowerMer(mer) == IF mer \in {"am", "AM"} THEN "am" ELSE "pm"

\* the 24 hour clock hour of the match
Hour24(h, mer) ==
    LET h1 == h + (IF LowerMer(mer) = "pm" /\ h # 12 THEN 12 ELSE 0)
    IN  IF LowerMer(mer) = "am" /\ h = 12 THEN 0 ELSE h1

\* minutes Asia/Kolkata is ahead of US Eastern on the date
EtToIstMinutes(date) == IF date = "2025-10-25" THEN 570 ELSE 630

\* dt_us.astimezone(IST_TZ).strftime("%a %I:%M %p"): the day is the weekday's
\* distance from the game date
IstLabel(h24, m, date) ==
    LET total == h24 * 60 + m + EtToIstMinutes(date)
        hh == (total % 1440) \div 60
    IN  [kind |-> "clock",
         h |-> IF hh % 12 = 0 THEN 12 ELSE hh % 12,
         m |-> total % 60,
         mer |-> IF hh < 12 THEN "AM" ELSE "PM",
         day |-> total \div 1440]

convert_et_to_ist(time_str, game_date_str) ==
    IF time_str.kind = "text" THEN time_str
    ELSE IF ~MatchesAmPmAnyCase(time_str) THEN time_str
    ELSE LET h == Hour24(time_str.h, time_str.mer)
         IN  IF h > 23 \/ time_str.m > 59 \/ game_date_str \notin ValidDates
             THEN time_str
             ELSE IF "ET_TZ" \notin ModuleGlobals THEN time_str
             ELSE IstLabel(h, time_str.m, game_date_str)

\* the hour of the day read back from the label, in minutes (0 when no match)
SortHour(ist_str) ==
    IF MatchesAmPmUpper(ist_str)
    THEN LET h0 == ist_str.h
             h1 == IF ist_str.mer = "PM" /\ h0 # 12 THEN h0 + 12 ELSE h0
             h2 == IF ist_str.mer = "AM" /\ h1 = 12 THEN 0 ELSE h1
         IN  h2 * 60 + ist_str.m
    ELSE 0

\* ------------------------------------------------------------ the scoring of one game
\* 150.0, in twentieths: the star sum of a team with no roster
STATIC_STARS == 3000
\* the 30 the formula starts from
BASE_SCORE == 30
\* spreads.get(home, 10.0), in tenths
DEFAULT_SPREAD == 100
\* the cap of the spread penalty
PENALTY_CAP == 45
\* the offensive rating the style bonus starts at
STYLE_BASELINE == 112
\* one point of score, in the unit the formula is computed in: sixths of
\* twentieths (the star sums over 6.0) and hundredths (0.8 of a tenth)
UNIT == 6 * 100

\* weights = [1.5, 1.0, 0.5], doubled
StarWeights == <<3, 2, 1>>

\* [p['fp'] for p in rosters[team] if p['name'] not in injured_set]
Avail(roster, injured) ==
    LET kept == SelectSeq(roster, LAMBDA p : p.name \notin injured)
    IN  [i \in 1..Len(kept) |-> kept[i].fp]

RECURSIVE WeightedSum(_, _)
WeightedSum(fps, i) ==
    IF i > Len(fps) \/ i > 3 THEN 0
    ELSE fps[i] * StarWeights[i] + WeightedSum(fps, i + 1)

\* get_stars with no fallback for a team without a roster: an empty sum
get_stars_no_fallback(team, rost, injured) ==
    IF team \notin DOMAIN rost THEN 0
    ELSE WeightedSum(Avail(rost[team], injured), 1)

\* get_stars(team), in twentieths
get_stars(team, rost, injured) ==
    IF team \notin DOMAIN rost THEN STATIC_STARS
    ELSE WeightedSum(Avail(rost[team], injured), 1)

\* team_stats.get(team, {'net': 0, 'wins': 0.5, 'ortg': 115})
TeamInfo(stats, team) == Get(stats, team, [net |-> 0, wins |-> Half, ortg |-> 1150])

\* wins > 0.60 and wins > 0.50
Above60(w) == 10 * w.num > 6 * w.den
Above50(w) == 2 * w.num > w.den

\* every term below is in units of 1/UNIT
StarScore(h_stars, a_stars) == (h_stars + a_stars) * 5

QualityScore(h_info, a_info) == (h_info.net + a_info.net) * 90

NarrativeBonus(h_info, a_info) ==
    IF Above60(h_info.wins) /\ Above60(a_info.wins) THEN 10 * UNIT
    ELSE IF Above50(h_info.wins) /\ Above50(a_info.wins) THEN 5 * UNIT
    ELSE 0

StyleBonus(h_info, a_info) ==
    Max(0, (h_info.ortg + a_info.ortg - 2 * 10 * STYLE_BASELINE) * 24)

TvBonus(tv) == IF tv \in {"ESPN", "TNT", "ABC", "NBATV"} THEN 5 * UNIT ELSE 0

\* spreads.get(home, 10.0)
SpreadOf(spr, home) == Get(spr, home, Num(DEFAULT_SPREAD))

SpreadPenalty(spread) == Min(Abs(spread) * 150, PENALTY_CAP * UNIT)

RawScore(row, rost, stats, injured, spread) ==
    LET h_info == TeamInfo(stats, row.home)
        a_info == TeamInfo(stats, row.away)
    IN  BASE_SCORE * UNIT
        + StarScore(get_stars(row.home, rost, injured), get_stars(row.away, rost, injured))
        + QualityScore(h_info, a_info)
        + NarrativeBonus(h_info, a_info)
        + StyleBonus(h_info, a_info)
        + TvBonus(row.tv)
        - SpreadPenalty(spread)

\* the raw score passed on with no clamp
FinalScoreNoClamp(raw) == raw

\* max(0, min(100, raw_score))
FinalScore(raw) == Max(0, Min(100 * UNIT, raw))

\* TEAM_LOGOS_URL.format(team_id)
Logo(team_id) == <<"https://cdn.nba.com/logos/nba/", team_id, "/primary/L/logo.svg">>

\* the dictionary appended for one schedule row; Score and Spread in tenths,
\* Sort_Hour in minutes
GameRecord(row, date, rost, stats, injured, spread) ==
    LET ist_str == convert_et_to_ist(row.time, date)
    IN  [Time_IST |-> ist_str,
         Sort_Hour |-> SortHour(ist_str),
         Matchup |-> <<row.away, " @ ", row.home>>,
         Spread |-> spread,
         Stars |-> Trunc(get_stars(row.home, rost, injured)
                           + get_stars(row.away, rost, injured), 20),
         Score |-> RoundHalfEven(FinalScore(RawScore(row, rost, stats, injured, spread)),
                                 UNIT \div 10),
         TV |-> row.tv,
         Home_Logo |-> Logo(row.home_id),
         Away_Logo |-> Logo(row.away_id),
         Source |-> IF DOMAIN rost # {} THEN "Manual CSV" ELSE "Static Fallback"]

\* ------------------------------------------------------------ get_schedule_with_stats
\* a caller calls get_schedule_with_stats(target_date)
Call ==
    /\ pc \in {"idle", "returned", "raised"}
    /\ pc' = "schedule"
    /\ prev' = result
    /\ result' = NoCall
    /\ games_df' = Unbound /\ rosters' = Unbound /\ team_stats' = Unbound
    /\ injured_set' = Unbound /\ spreads' = Unbound
    /\ enriched_games' = Unbound /\ idx' = 0
    /\ UNCHANGED env

\* FetchSchedule without the early return on an empty schedule
FetchScheduleNoEarlyReturn ==
    /\ pc = "schedule"
    /\ games_df' = Bound(get_schedule_from_cdn(target_date, cdn))
    /\ pc' = "players"
    /\ UNCHANGED <<env, rosters, team_stats, injured_set, spreads,
                   enriched_games, idx, result, prev>>

\* games_df = get_schedule_from_cdn(...); if games_df.empty: return pd.DataFrame()
FetchSchedule ==
    /\ pc = "schedule"
    /\ LET rows == get_schedule_from_cdn(target_date, cdn)
       IN  /\ games_df' = Bound(rows)
           /\ IF rows = <<>>
              THEN pc' = "returned" /\ result' = Table(<<>>)
              ELSE pc' = "players" /\ UNCHANGED result
    /\ UNCHANGED <<env, rosters, team_stats, injured_set, spreads,
                   enriched_games, idx, prev>>

\* rosters = load_players()
LoadPlayers ==
    /\ pc = "players"
    /\ rosters' = Bound(load_players(stats_csv))
    /\ pc' = "teams"
    /\ UNCHANGED <<env, games_df, team_stats, injured_set, spreads,
                   enriched_games, idx, result, prev>>

\* team_stats = load_team_stats()
LoadTeamStats ==
    /\ pc = "teams"
    /\ team_stats' = Bound(load_team_stats(team_csv))
    /\ pc' = "injuries"
    /\ UNCHANGED <<env, games_df, rosters, injured_set, spreads,
                   enriched_games, idx, result, prev>>

\* injured_set = load_injuries()
LoadInjuries ==
    /\ pc = "injuries"
    /\ injured_set' = Bound(load_injuries(injury_html))
    /\ pc' = "odds"
    /\ UNCHANGED <<env, games_df, rosters, team_stats, spreads,
                   enriched_games, idx, result, prev>>

\* spreads = get_betting_spreads(); enriched_games = []
\* an exception of the odds request leaves get_schedule_with_stats
GetBettingSpreads ==
    /\ pc = "odds"
    /\ LET got == get_betting_spreads(odds_api)
       IN  IF got.raised
           THEN /\ pc' = "raised" /\ result' = Raised
                /\ UNCHANGED <<spreads, enriched_games, idx>>
           ELSE /\ spreads' = Bound(got.v)
                /\ enriched_games' = Bound(<<>>) /\ idx' = 1
                /\ pc' = "loop" /\ UNCHANGED result
    /\ UNCHANGED <<env, games_df, rosters, team_stats, injured_set, prev>>

\* EnrichGame putting the new record first: enriched_games.insert(0, ...)
EnrichGamePrepend ==
    /\ pc = "loop"
    /\ idx <= Len(games_df.v)
    /\ LET row == games_df.v[idx]
           spread == SpreadOf(spreads.v, row.home)
       IN  IF spread.null
           THEN /\ pc' = "raised" /\ result' = Raised
                /\ UNCHANGED <<enriched_games, idx>>
           ELSE /\ enriched_games' =
                      Bound(<<GameRecord(row, target_date, rosters.v, team_stats.v,
                                         injured_set.v, spread.v)>> \o enriched_games.v)
                /\ idx' = idx + 1
                /\ UNCHANGED <<pc, result>>
    /\ UNCHANGED <<env, games_df, rosters, team_stats, injured_set, spreads, prev>>

\* one turn of the loop over the schedule rows; abs(None) raises
EnrichGame ==
    /\ pc = "loop"
    /\ idx <= Len(games_df.v)
    /\ LET row == games_df.v[idx]
           spread == SpreadOf(spreads.v, row.home)
       IN  IF spread.null
           THEN /\ pc' = "raised" /\ result' = Raised
                /\ UNCHANGED <<enriched_games, idx>>
           ELSE /\ enriched_games' =
                      Bound(Append(enriched_games.v,
                                   GameRecord(row, target_date, rosters.v, team_stats.v,
                                              injured_set.v, spread.v)))
                /\ idx' = idx + 1
                /\ UNCHANGED <<pc, result>>
    /\ UNCHANGED <<env, games_df, rosters, team_stats, injured_set, spreads, prev>>

\* return pd.DataFrame(enriched_games)
Return ==
    /\ pc = "loop"
    /\ idx > Len(games_df.v)
    /\ result' = Table(enriched_games.v)
    /\ pc' = "returned"
    /\ UNCHANGED <<env, games_df, rosters, team_stats, injured_set, spreads,
                   enriched_games, idx, prev>>

Next ==
    \/ Call
    \/ FetchSchedule
    \/ LoadPlayers
    \/ LoadTeamStats
    \/ LoadInjuries
    \/ GetBettingSpreads
    \/ EnrichGame
    \/ Return

\* ------------------------------------------------------------ the outside world
SeqsUpTo(S, n) == UNION {[1..k -> S] : k \in 0..n}

TeamId(team) ==
    CASE team = "LAL" -> "1610612747" [] team = "BOS" -> "1610612738"
      [] team = "BKN" -> "1610612751" [] OTHER -> "0"

FeedGame(home, away, time, national) ==
    [home |-> home, away |-> away, home_id |-> TeamId(home), away_id |-> TeamId(away),
     time |-> time, national |-> national, wellformed |-> TRUE]

\* a schedule feed that answers, with the games of the date after another date's
OkFeed(date, games) ==
    [outcome |-> "ok",
     dates |-> <<[gameDate |-> "2024-12-25", games |-> <<>>],
                 [gameDate |-> date, games |-> games]>>]

FailedFeed(how) == [outcome |-> how, dates |-> <<>>]

StatLine(pts, trb, ast, stl, blk, tov) ==
    [PTS |-> pts, TRB |-> trb, AST |-> ast, STL |-> stl, BLK |-> blk, TOV |-> tov]

\* a row of stats.csv
StatsRow(player, code, line, bad) ==
    [Player |-> player, code |-> code, PTS |-> line.PTS, TRB |-> line.TRB,
     AST |-> line.AST, STL |-> line.STL, BLK |-> line.BLK, TOV |-> line.TOV,
     bad |-> bad]

StatsCsv(team_col, has_tov, rows) ==
    [exists |-> TRUE, readable |-> TRUE, has_player_col |-> TRUE,
     team_col |-> team_col, has_tov |-> has_tov, rows |-> rows]

NoStatsCsv == [StatsCsv("Team", TRUE, <<>>) EXCEPT !.exists = FALSE]
BadStatsCsv == [StatsCsv("Team", TRUE, <<>>) EXCEPT !.readable = FALSE]

\* a row of team_stats.csv
TeamRow(name, w, l, pace, nrtg, ortg, bad) ==
    [Team |-> name, W |-> w, L |-> l, Pace |-> pace, NRtg |-> nrtg, ORtg |-> ortg,
     bad |-> bad]

TeamCsv(rows) ==
    [exists |-> TRUE, readable |-> TRUE, has_team_col |-> TRUE, rows |-> rows]

NoTeamCsv == [TeamCsv(<<>>) EXCEPT !.exists = FALSE]
BadTeamCsv == [TeamCsv(<<>>) EXCEPT !.has_team_col = FALSE]

InjuryTable(rows) ==
    [columns |-> {"Player", "Team", "Injury Status"}, rows |-> rows]

InjuryHtml(tables) == [exists |-> TRUE, readable |-> TRUE, tables |-> tables]

NoInjuryHtml == [InjuryHtml(<<>>) EXCEPT !.exists = FALSE]
BadInjuryHtml == [InjuryHtml(<<>>) EXCEPT !.readable = FALSE]

StatusOut == <<"O", "u", "t">>
StatusDoubtful == <<"D", "O", "U", "B", "T", "F", "U", "L">>
StatusProbable == <<"P", "r", "o", "b", "a", "b", "l", "e">>
StatusQuestionable == <<"Q", "u", "e", "s", "t", "i", "o", "n", "a", "b", "l", "e">>

Outcome(name, point) == [has_name |-> TRUE, name |-> name, has_point |-> TRUE, point |-> point]

\* one game of the odds answer, with one bookmaker offering one market
OddsGame(outcomes) == [bookmakers |-> <<[markets |-> <<[outcomes |-> outcomes]>>]>>]

OddsApi(data) ==
    [import_ok |-> TRUE, key |-> "secret", request |-> "ok", status_code |-> 200,
     json_ok |-> TRUE, data |-> data]

\* the values the program starts from
ProgInit ==
    /\ pc = "idle"
    /\ games_df = Unbound /\ rosters = Unbound /\ team_stats = Unbound
    /\ injured_set = Unbound /\ spreads = Unbound /\ enriched_games = Unbound
    /\ idx = 0
    /\ result = NoCall /\ prev = NoCall

\* ------------------------------------------------------------ Spec: every adapter outcome
BaseDate == "2025-01-10"

LineStar == StatLine(280, 80, 85, 12, 6, 35)
LineRole == StatLine(95, 42, 21, 8, 3, 11)

GameBosAtLal == FeedGame("LAL", "BOS", Clock(7, 30, "pm"), <<"ESPN", "TNT">>)
GameLalAtBkn == FeedGame("BKN", "LAL", Text("Final"), <<>>)

Feeds ==
    {FailedFeed("network_error"), FailedFeed("bad_json"), FailedFeed("missing_key")}
    \cup {OkFeed(BaseDate, gs) : gs \in SeqsUpTo({GameBosAtLal, GameLalAtBkn}, MaxGames)}
    \cup {OkFeed(BaseDate, <<GameBosAtLal, [GameLalAtBkn EXCEPT !.wellformed = FALSE]>>)}

SmallStatsCsv ==
    StatsCsv("Team", TRUE, <<StatsRow(<<"A", "a01">>, "LAL", LineRole, {}),
                             StatsRow(<<"B", "b01">>, "LAL", LineStar, {}),
                             StatsRow(<<"C", "c01">>, "BOS", LineStar, {})>>)

SmallTeamCsv ==
    TeamCsv(<<TeamRow(<<"Los Angeles Lakers", "*">>, 30, 10, 1012, 65, 1183, {}),
              TeamRow(<<"League Average">>, 20, 20, 995, 0, 1140, {}),
              TeamRow(<<"Boston Celtics">>, 26, 14, 978, 41, 1201, {"Pace"})>>)

SmallInjuryHtml ==
    InjuryHtml(<<InjuryTable(<<[Player |-> "B", status |-> StatusOut],
                               [Player |-> "C", status |-> StatusProbable]>>)>>)

LalOdds == <<OddsGame(<<Outcome("Los Angeles Lakers", Num(-55)),
                        Outcome("Boston Celtics", Num(55))>>)>>

OddsOutcomes ==
    {OddsApi(LalOdds),
     [OddsApi(LalOdds) EXCEPT !.import_ok = FALSE],
     [OddsApi(LalOdds) EXCEPT !.key = "PASTE_YOUR_KEY_HERE"],
     [OddsApi(LalOdds) EXCEPT !.request = "network_error"],
     [OddsApi(LalOdds) EXCEPT !.key = "", !.status_code = 401],
     [OddsApi(LalOdds) EXCEPT !.json_ok = FALSE],
     OddsApi(<<[bookmakers |-> <<>>], OddsGame(<<Outcome("Brooklyn Nets", Num(20))>>)>>),
     OddsApi(<<OddsGame(<<[Outcome("", Num(0)) EXCEPT !.has_name = FALSE]>>)>>),
     OddsApi(<<OddsGame(<<Outcome("Los Angeles Lakers", Null)>>)>>)}

Init ==
    /\ ProgInit
    /\ target_date \in {BaseDate, "tomorrow"}
    /\ cdn \in Feeds
    /\ stats_csv \in {NoStatsCsv, BadStatsCsv, SmallStatsCsv}
    /\ team_csv \in {NoTeamCsv, BadTeamCsv, SmallTeamCsv}
    /\ injury_html \in {NoInjuryHtml, BadInjuryHtml, SmallInjuryHtml}
    /\ odds_api \in OddsOutcomes

Spec == Init /\ [][Next]_vars

\* ------------------------------------------------------------ claims checked under Spec
\* C2: whatever the adapters' outcomes (network failure, non-200 status,
\* malformed payload, missing field), get_schedule_with_stats returns a table
\* and never ends by raising.
C2_NoAdapterFailurePropagates == pc # "raised" /\ result.kind # "raised"

\* C3: when the schedule adapter yields no game the call has returned the empty
\* table at once: no other adapter has been invoked, so the locals they would
\* fill are still unassigned.
C3_EmptyScheduleReturnsAtOnce ==
    (games_df.bound /\ games_df.v = <<>>) =>
        /\ pc = "returned"
        /\ result = Table(<<>>)
        /\ rosters = Unbound /\ team_stats = Unbound
        /\ injured_set = Unbound /\ spreads = Unbound

\* a valid date the feed answers for, with no game on it, has been served
C3_Witness ==
    /\ target_date \in ValidDates /\ cdn.outcome = "ok"
    /\ games_df.bound /\ games_df.v = <<>>
    /\ pc = "returned" /\ result = Table(<<>>)

\* C4: every returned record carries every numeric field of the GameRecord
\* contract, the Pace the dashboard reads with Spread, Stars and Score included.
C4_EveryRecordHasEveryNumericField ==
    result.kind = "table" =>
        \A i \in 1..Len(result.rows) :
            {"Sort_Hour", "Spread", "Stars", "Score", "Pace"} \subseteq DOMAIN result.rows[i]

C7_SmallSignalKeepsEveryPlayer ==
    (pc \in {"loop", "returned"} /\ rosters.bound /\ injured_set.bound
       /\ Cardinality(injured_set.v) <= 1) =>
        \A team \in DOMAIN rosters.v :
            Len(Avail(rosters.v[team], injured_set.v)) = Len(rosters.v[team])

\* ------------------------------------------------------------ SpecScore: the score's inputs
LineHuge == StatLine(99990, 500, 500, 100, 100, 0)
LineNegative == StatLine(0, 0, 0, 0, 0, 99990)

ScoreFeeds ==
    {OkFeed(BaseDate, <<FeedGame(g[1], g[2], Clock(7, 30, "pm"), national)>>) :
        g \in {<<"LAL", "BOS">>, <<"BOS", "LAL">>}, national \in {<<>>, <<"ESPN">>}}

ScoreLines == {LineStar, LineHuge, LineNegative}

ScoreStatsCsvs ==
    {NoStatsCsv}
    \cup {StatsCsv("Team", TRUE, <<StatsRow(<<"A">>, "LAL", l, {})>>) : l \in ScoreLines}
    \cup {StatsCsv("Team", TRUE, <<StatsRow(<<"A">>, "LAL", l1, {}),
                                   StatsRow(<<"C">>, "BOS", l2, {})>>) :
            l1 \in ScoreLines, l2 \in ScoreLines}

LakersRows ==
    {TeamRow(<<"Los Angeles Lakers">>, wl[1], wl[2], 1000, net, ortg, {}) :
        wl \in {<<0, 0>>, <<6, 4>>, <<7, 3>>}, net \in {-500, 0, 500}, ortg \in {1000, 1300}}

CelticsRows ==
    {TeamRow(<<"Boston Celtics">>, 7, 3, 1000, -500, 1000, {}),
     TeamRow(<<"Boston Celtics">>, 11, 9, 1000, 500, 1300, {})}

ScoreTeamCsvs ==
    {NoTeamCsv} \cup {TeamCsv(<<l, c>>) : l \in LakersRows, c \in CelticsRows}

\* the outcomes a team has in the odds game: one for each point listed
OutcomesOf(name, points) == [i \in 1..Len(points) |-> Outcome(name, Num(points[i]))]

\* one odds game with at most one outcome for the Lakers and for the Celtics
ScoreOdds ==
    {OddsApi(<<OddsGame(OutcomesOf("Los Angeles Lakers", lal)
                          \o OutcomesOf("Boston Celtics", bos))>>) :
        lal \in {<<>>, <<-2000>>, <<-55>>, <<0>>, <<180>>, <<2000>>},
        bos \in {<<>>, <<55>>}}

InitScore ==
    /\ ProgInit
    /\ target_date = BaseDate
    /\ cdn \in ScoreFeeds
    /\ stats_csv \in ScoreStatsCsvs
    /\ team_csv \in ScoreTeamCsvs
    /\ injury_html = NoInjuryHtml
    /\ odds_api \in ScoreOdds

SpecScore == InitScore /\ [][Next]_vars

\* the raw score of schedule row i, from the locals of the call
RawOf(i) ==
    RawScore(games_df.v[i], rosters.v, team_stats.v, injured_set.v, result.rows[i].Spread)

\* row i got the empty or default answer of every source but the odds: no
\* rosters, league-average teams, nobody injured, no marquee broadcaster
AllDefault(i) ==
    /\ DOMAIN rosters.v = {}
    /\ TeamInfo(team_stats.v, games_df.v[i].home) = DefaultTeam
    /\ TeamInfo(team_stats.v, games_df.v[i].away) = DefaultTeam
    /\ injured_set.v = {}
    /\ TvBonus(games_df.v[i].tv) = 0

\* C1: every returned record has 0 <= Score <= 100, however extreme the
\* spread, the net ratings and the fantasy points are.
C1_ScoreWithinRange ==
    result.kind = "table" =>
        \A i \in 1..Len(result.rows) :
            result.rows[i].Score >= 0 /\ result.rows[i].Score <= 1000

\* a record whose raw score was below 0 with a spread of 200 points
C1_Witness ==
    /\ pc = "returned" /\ Len(result.rows) >= 1
    /\ Abs(result.rows[1].Spread) = 2000
    /\ RawOf(1) < 0
    /\ result.rows[1].Score = 0

\* C5 as stated: with every source at its default the score is the base alone
\* less the spread penalty, nothing else adding to it.
C5_DefaultScoreIsBaseLessPenalty ==
    pc = "returned" =>
        \A i \in 1..Len(result.rows) :
            AllDefault(i) =>
                result.rows[i].Score * (UNIT \div 10) =
                    FinalScore(BASE_SCORE * UNIT - SpreadPenalty(result.rows[i].Spread))

\* C5 as amended: with every source at its default the score is
\* 30 + 50 (the static star value of two teams without rosters) + 2.4 (the
\* style bonus of two default offensive ratings) less the spread penalty
\* min(2.5 |spread|, 45), rounded to one decimal: 82.4 at spread 0, 37.4 at
\* spread 18; quality, narrative and broadcast add 0.
C5_DefaultScoreIsFallbackLessPenalty ==
    pc = "returned" =>
        \A i \in 1..Len(result.rows) :
            AllDefault(i) =>
                /\ Abs(result.rows[i].Score * 60
                         - (824 * 60 - Min(Abs(result.rows[i].Spread) * 150, 450 * 60))) <= 30
                /\ result.rows[i].Spread = 0 => result.rows[i].Score = 824
                /\ result.rows[i].Spread = 180 => result.rows[i].Score = 374
                /\ QualityScore(TeamInfo(team_stats.v, games_df.v[i].home),
                                TeamInfo(team_stats.v, games_df.v[i].away)) = 0
                /\ NarrativeBonus(TeamInfo(team_stats.v, games_df.v[i].home),
                                  TeamInfo(team_stats.v, games_df.v[i].away)) = 0

\* an all-default game with a spread of 18 has been scored
C5_Witness ==
    /\ pc = "returned" /\ Len(result.rows) >= 1
    /\ AllDefault(1)
    /\ result.rows[1].Spread = 180

\* C6: in a game involving LAL, with no spread entry for the opponent, the
\* record's Spread is the LAL entry -5.5 whichever side LAL is on, and the
\* default 10.0 only when LAL has no entry either.
C6_LalSpreadOnEitherSide ==
    (pc = "returned" /\ spreads.bound) =>
        \A i \in 1..Len(result.rows) :
            LET row == games_df.v[i]
                opp == IF row.home = "LAL" THEN row.away ELSE row.home
            IN  ("LAL" \in {row.home, row.away} /\ opp \notin DOMAIN spreads.v) =>
                    /\ ("LAL" \in DOMAIN spreads.v /\ spreads.v["LAL"] = Num(-55))
                          => result.rows[i].Spread = -55
                    /\ "LAL" \notin DOMAIN spreads.v
                          => result.rows[i].Spread = DEFAULT_SPREAD

\* ------------------------------------------------------------ SpecPlayers: the rows of stats.csv
\* a repeated header line of the sheet: no cell of it is a number
HeaderRow ==
    StatsRow(<<"Player">>, "Tm", StatLine(0, 0, 0, 0, 0, 0),
             {"PTS", "TRB", "AST", "STL", "BLK", "TOV"})

PlayerRows ==
    {StatsRow(<<n, "01">>, code, lb[1], lb[2]) :
        n \in {"A", "B"},
        code \in {"LAL", "BKN", "BRK", "CHO", "PHO", "TOT"},
        lb \in {<<LineStar, {}>>, <<LineRole, {}>>, <<LineRole, {"AST"}>>}}
    \cup {HeaderRow}

PlayerCsvs ==
    {StatsCsv(c[1], c[2], rows) :
        c \in {<<"Team", TRUE>>, <<"Tm", FALSE>>, <<"none", TRUE>>},
        rows \in SeqsUpTo(PlayerRows, MaxRows)}

InitPlayers ==
    /\ ProgInit
    /\ target_date = BaseDate
    /\ cdn = OkFeed(BaseDate, <<GameBosAtLal>>)
    /\ stats_csv \in PlayerCsvs
    /\ team_csv = NoTeamCsv
    /\ injury_html = NoInjuryHtml
    /\ odds_api = OddsApi(LalOdds)

SpecPlayers == InitPlayers /\ [][Next]_vars

\* the rows of stats.csv that name a player, a team column being there, and
\* whose statistics are all numbers
CreditableRows ==
    {j \in 1..Len(stats_csv.rows) :
        /\ stats_csv.team_col \in {"Team", "Tm"}
        /\ stats_csv.rows[j].Player # <<"Player">>
        /\ FpParses(stats_csv, stats_csv.rows[j])}

\* the abbreviation a sheet code stands for
CanonicalOf(code) ==
    CASE code = "BRK" -> "BKN" [] code = "CHO" -> "CHA" [] code = "PHO" -> "PHX"
      [] OTHER -> code

\* C8: no roster is kept under a legacy code (BRK, CHO, PHO) or the traded
\* sentinel (TOT); a row with a legacy code is listed under the canonical
\* abbreviation; every roster holds exactly one entry per row of its team, so
\* a TOT row, and any row of a sheet with no team column, is in no roster.
C8_LegacyCodesCanonicalTotDropped ==
    rosters.bound =>
        /\ DOMAIN rosters.v \cap {"BRK", "CHO", "PHO", "TOT", "SKIP"} = {}
        /\ \A j \in CreditableRows :
              LET row == stats_csv.rows[j]
              IN  row.code \in {"BRK", "CHO", "PHO"} =>
                    /\ CanonicalOf(row.code) \in DOMAIN rosters.v
                    /\ \E k \in 1..Len(rosters.v[CanonicalOf(row.code)]) :
                          rosters.v[CanonicalOf(row.code)][k]
                              = [name |-> row.Player[1], fp |-> FantasyPoints(stats_csv, row)]
        /\ \A t \in DOMAIN rosters.v :
              Len(rosters.v[t]) =
                  Cardinality({j \in CreditableRows :
                                  /\ stats_csv.rows[j].code # "TOT"
                                  /\ CanonicalOf(stats_csv.rows[j].code) = t})
        /\ stats_csv.team_col = "none" => DOMAIN rosters.v = {}

\* a sheet with a BRK row and a TOT row has been loaded: the Nets have the
\* one player and nobody else has any
C8_Witness ==
    /\ rosters.bound
    /\ \E j \in CreditableRows : stats_csv.rows[j].code = "BRK"
    /\ \E j \in CreditableRows : stats_csv.rows[j].code = "TOT"
    /\ DOMAIN rosters.v = {"BKN"}
    /\ Len(rosters.v["BKN"]) = 1

\* ------------------------------------------------------------ SpecTime: the schedule times
ScheduleTimes ==
    {Clock(h, m, mer) : h \in 1..12, m \in {0, 30, 59}, mer \in {"am", "pm", "AM", "PM"}}
    \cup {Text(""), Text("Final"), Text("Final/OT"), Text("TBD")}

InitTime ==
    /\ ProgInit
    /\ target_date \in ValidDates
    /\ \E t \in ScheduleTimes :
          cdn = OkFeed(target_date, <<FeedGame("LAL", "BOS", t, <<>>)>>)
    /\ stats_csv = SmallStatsCsv
    /\ team_csv = SmallTeamCsv
    /\ injury_html = NoInjuryHtml
    /\ odds_api = OddsApi(LalOdds)

SpecTime == InitTime /\ [][Next]_vars

\* C9: a game whose schedule time is "h:mm am/pm ET" gets the Asia/Kolkata
\* label of that instant as its display time, and the hour of day of that
\* label as Sort_Hour.
C9_EasternTimeShownInDisplayZone ==
    (pc = "returned" /\ games_df.bound) =>
        \A i \in 1..Len(result.rows) :
            LET t == games_df.v[i].time
            IN  t.kind = "clock" =>
                  LET label == IstLabel(Hour24(t.h, t.mer), t.m, target_date)
                  IN  /\ result.rows[i].Time_IST = label
                      /\ result.rows[i].Sort_Hour = SortHour(label)

\* ------------------------------------------------------------ SpecPace: the teams' pace
\* the Celtics visit the Lakers and the Nets on one date
GameBosAtBkn == FeedGame("BKN", "BOS", Clock(7, 30, "pm"), <<"ESPN", "TNT">>)

Paces == {950, 990, 1000, 1020, 1050}

\* sheets whose Lakers and Nets rows differ in nothing but the pace
PaceTeamCsvs ==
    {TeamCsv(<<TeamRow(<<"Los Angeles Lakers">>, wl[1], wl[2], p1, 30, 1183, {}),
               TeamRow(<<"Brooklyn Nets">>, wl[1], wl[2], p2, 30, 1183, {}),
               TeamRow(<<"Boston Celtics">>, 7, 3, p3, 41, 1201, {})>>) :
        wl \in {<<7, 3>>, <<4, 6>>}, p1 \in Paces, p2 \in Paces, p3 \in Paces}

InitPace ==
    /\ ProgInit
    /\ target_date = BaseDate
    /\ cdn = OkFeed(BaseDate, <<GameBosAtLal, GameBosAtBkn>>)
    /\ stats_csv \in {NoStatsCsv, SmallStatsCsv}
    /\ team_csv \in PaceTeamCsvs
    /\ injury_html = NoInjuryHtml
    /\ odds_api \in {OddsApi(<<>>), OddsApi(LalOdds)}

SpecPace == InitPace /\ [][Next]_vars

\* the sum of the two teams' pace of schedule row i, in tenths
PaceSum(i) == team_stats.v[games_df.v[i].home].pace + team_stats.v[games_df.v[i].away].pace

\* rows i and j are alike in every component of the score but the pace
AlikeButPace(i, j) ==
    LET ri == games_df.v[i]
        rj == games_df.v[j]
        hi == TeamInfo(team_stats.v, ri.home)
        ai == TeamInfo(team_stats.v, ri.away)
        hj == TeamInfo(team_stats.v, rj.home)
        aj == TeamInfo(team_stats.v, rj.away)
    IN  /\ get_stars(ri.home, rosters.v, injured_set.v) + get_stars(ri.away, rosters.v, injured_set.v)
             = get_stars(rj.home, rosters.v, injured_set.v) + get_stars(rj.away, rosters.v, injured_set.v)
        /\ QualityScore(hi, ai) = QualityScore(hj, aj)
        /\ NarrativeBonus(hi, ai) = NarrativeBonus(hj, aj)
        /\ StyleBonus(hi, ai) = StyleBonus(hj, aj)
        /\ TvBonus(ri.tv) = TvBonus(rj.tv)
        /\ result.rows[i].Spread = result.rows[j].Spread

\* C11: the raw score has a pace bonus max(0, (avg_pace - 98) * pace_weight)
\* among its terms: two games alike in every other component, whose average
\* paces are both above 98 and differ, have different raw scores, and the
\* faster game's score is not the lower one.
C11_PaceAboveBaselineChangesScore ==
    pc = "returned" =>
        \A i, j \in 1..Len(result.rows) :
            (AlikeButPace(i, j) /\ PaceSum(j) > PaceSum(i) /\ PaceSum(i) > 2 * 980) =>
                /\ RawOf(i) # RawOf(j)
                /\ result.rows[j].Score >= result.rows[i].Score

\* ------------------------------------------------------------ SpecStars: the star power
MaxRoster == 4

\* a line of fantasy points -3.0
LineSlump == StatLine(10, 0, 0, 0, 0, 40)

StarLines == {LineStar, LineRole, LineSlump}

RosterNames == <<"P1", "P2", "P3", "P4", "P5", "P6">>

\* the Lakers' rows of the sheet, in any order of fantasy points
LakersSheets ==
    {[i \in 1..Len(ls) |-> StatsRow(<<RosterNames[i], "x01">>, "LAL", ls[i], {})] :
        ls \in SeqsUpTo(StarLines, MaxRoster)}

CelticsSheets == {<<>>, <<StatsRow(<<"C", "c01">>, "BOS", LineStar, {})>>}

StarStatsCsvs ==
    {StatsCsv("Team", TRUE, lal \o bos) : lal \in LakersSheets, bos \in CelticsSheets}

\* a report on the first three Lakers: those of out are Out, the others Probable
StarInjuryHtmls ==
    {InjuryHtml(<<InjuryTable([i \in 1..3 |->
                     [Player |-> RosterNames[i],
                      status |-> IF RosterNames[i] \in out THEN StatusOut
                                 ELSE StatusProbable]])>>) :
        out \in SUBSET {RosterNames[1], RosterNames[2], RosterNames[3]}}

InitStars ==
    /\ ProgInit
    /\ target_date = BaseDate
    /\ cdn = OkFeed(BaseDate, <<GameBosAtLal>>)
    /\ stats_csv \in StarStatsCsvs
    /\ team_csv = SmallTeamCsv
    /\ injury_html \in StarInjuryHtmls
    /\ odds_api = OddsApi(LalOdds)

SpecStars == InitStars /\ [][Next]_vars

\* the weights 1.5, 1.0 and 0.5, in tenths
SideWeights == <<15, 10, 5>>

\* the k-th and later weighted terms over the players idxs of a roster, the
\* one of most fantasy points first; in hundredths
RECURSIVE TopWeighted(_, _, _)
TopWeighted(roster, idxs, k) ==
    IF idxs = {} \/ k > 3 THEN 0
    ELSE LET best == CHOOSE i \in idxs : \A j \in idxs : roster[i].fp >= roster[j].fp
         IN  roster[best].fp * SideWeights[k] + TopWeighted(roster, idxs \ {best}, k + 1)

\* side_star of a team with roster data, in hundredths: the injured left out
SideStar(team) ==
    LET roster == rosters.v[team]
    IN  TopWeighted(roster, {i \in 1..Len(roster) : roster[i].name \notin injured_set.v}, 1)

\* the star power of a side, in hundredths: 150.0 for a team with no roster
SideOrStatic(team) ==
    IF team \in DOMAIN rosters.v THEN SideStar(team) ELSE 5 * STATIC_STARS

\* the raw score of schedule row i less its star component
RestOf(i) ==
    LET row == games_df.v[i]
    IN  RawOf(i) - StarScore(get_stars(row.home, rosters.v, injured_set.v),
                             get_stars(row.away, rosters.v, injured_set.v))

====
